---- MODULE Spec2Model ----
(***************************************************************************)
(* A model of usb-picoboot-rs: the PICOBOOT session (src/src/picousb.rs)   *)
(* and the flashing pass that drives it (src/src/main.rs).                 *)
(*                                                                         *)
(* The program is single threaded.  Every call into libusb is one step of  *)
(* the model, and the result of the call (success, short transfer, error,  *)
(* the bytes the device answers) is chosen by the environment.  A panic    *)
(* unwinds main: once a PicobootConnection exists its Drop runs.           *)
(***************************************************************************)
EXTENDS Integers, Sequences, FiniteSets, TLC

\* ------------------------------------------------------------ constants
PICO_SECTOR_SIZE == 256
PICO_FLASH_START == 268435456
PICO_STACK_POINTER == 537141248

\* The block sizes of the flashing pass.  main.rs imports PICO_PAGE_SIZE from
\* picousb, whose definition is not part of the sources at hand: the data
\* model only fixes that the sector size is a multiple of the page size.
PageSizes == {d \in {128, 256} : PICO_SECTOR_SIZE % d = 0}

\* ------------------------------------------------------------ bounds
\* The largest number of blocks of an image.
MaxBlocks == 3
\* The number of byte patterns an image is filled with (pattern 0 is all zero).
MaxFill == 1
\* The number of calls a client of the session makes.
MaxCalls == 2
\* The longest buffer a client of the session writes or reads.
MaxBuf == 1

\* ------------------------------------------------------------ integers
\* The u32 values of a run (tokens, addresses, lengths) stay far below 2^31:
\* a flashing pass of n blocks makes 3n + 2 exchanges and reaches address
\* PICO_FLASH_START + n * page size.  They are modelled as integers.

RECURSIVE BitAnd(_, _)
BitAnd(a, b) ==
    IF a = 0 \/ b = 0 THEN 0
    ELSE (a % 2) * (b % 2) + 2 * BitAnd(a \div 2, b \div 2)

Min(a, b) == IF a < b THEN a ELSE b

\* ------------------------------------------------------------ command ids
CmdUnknown == 0
CmdExclusiveAccess == 1
CmdReboot == 2
CmdFlashErase == 3
CmdRead == 132
CmdWrite == 5
CmdExitXip == 6
CmdEnterCmdXip == 7
CmdExec == 8
CmdVectorizeFlash == 9
CmdReboot2 == 10
CmdGetInfo == 139
CmdOtpRead == 140
CmdOtpWrite == 13

\* TryFrom<u8> for PicobootCmdId: TRUE when the byte decodes.
CmdIdDefined(x) ==
    x \in {CmdUnknown, CmdExclusiveAccess, CmdReboot, CmdFlashErase, CmdRead,
           CmdWrite, CmdExitXip, CmdEnterCmdXip, CmdExec, CmdVectorizeFlash,
           CmdReboot2, CmdGetInfo, CmdOtpRead, CmdOtpWrite}

StatusOk == 0
StatusBadAlignment == 5
StatusUnsupportedModification == 17

\* A faulty variant: every status but Ok is taken as a failure.
StatusDefined_OkOnly(x) == x = StatusOk

\* TryFrom<u32> for PicobootStatus: TRUE when the code decodes.
StatusDefined(x) == x >= StatusOk /\ x <= StatusUnsupportedModification

\* (cmd_id & 0x80) != 0
HighBit(cmd_id) == (cmd_id \div 128) % 2 = 1

\* ------------------------------------------------------------ images
\* The byte at (1-based) position j of the image with fill pattern f: never
\* zero for f > 0, so that padding can be told from content; all zero for 0.
ImageByte(f, j) == IF f = 0 THEN 0 ELSE ((j * 7 + f) % 255) + 1

ImageLens(B) == 0..(MaxBlocks * B)

MakeImage(f, l) == [j \in 1..l |-> ImageByte(f, j)]

\* uf2_pages, after the container is decoded: slice into pages of B bytes and
\* zero-pad the last one.
RECURSIVE PagesFrom(_, _, _)
PagesFrom(fw, i, B) ==
    IF i >= Len(fw) THEN <<>>
    ELSE LET size == Min(Len(fw) - i, B)
             page == [j \in 1..B |-> IF j <= size THEN fw[i + j] ELSE 0]
         IN  <<page>> \o PagesFrom(fw, i + B, B)

\* A faulty variant: the last page is not resized.
RECURSIVE PagesFrom_NoPad(_, _, _)
PagesFrom_NoPad(fw, i, B) ==
    IF i >= Len(fw) THEN <<>>
    ELSE LET size == Min(Len(fw) - i, B)
         IN  <<[j \in 1..size |-> fw[i + j]]>> \o PagesFrom_NoPad(fw, i + B, B)

uf2_pages_NoPad(fw, B) == PagesFrom_NoPad(fw, 0, B)

uf2_pages(fw, B) == PagesFrom(fw, 0, B)



\* ------------------------------------------------------------ state
VARIABLES
    pc,              \* the position of main
    panicking,       \* a panic is unwinding main
    outcome,         \* "running", "ok", "panic" or "abort" (panic while panicking)
    constructed,     \* PicobootConnection::new has returned: conn exists
    cmd_token,       \* PicobootConnection.cmd_token
    has_kernel_driver, \* PicobootConnection.has_kernel_driver
    target_id,       \* PicobootConnection.target_id
    page_size,       \* PICO_PAGE_SIZE of this build
    image,           \* the decoded firmware image (the uf2 file's payload)
    fw_pages,        \* main: fw_pages
    i,               \* main: the loop index
    erased_sectors,  \* main: erased_sectors
    read,            \* main: read, the bytes of the last flash_read
    xpos,            \* the position inside PicobootConnection::cmd
    xcmd,            \* cmd: the command header
    xbuf,            \* cmd: buf, the caller's buffer
    xres,            \* cmd: res
    stat,            \* cmd: _stat, the last status reply read (buf)
    wire,            \* the transfers of the current exchange, in order
    device,          \* the chip on the bus: "Rp2040", "Rp2350" or "none"
    driver,          \* the kernel driver of the interface: "bound", "detached", "none"
    claimed,         \* the interface is claimed through this handle
    flash,           \* the device's flash: address -> byte
    programmed,      \* the last write data phase, as the device took it
    tokens,          \* the token of every header put on the wire, in order
    nAcks,           \* the number of acknowledgment transfers completed
    xfers,           \* the number of transfers attempted in exchanges
    ops,             \* the operations main has called on conn, in order
    teardown,        \* the calls Drop has made, in order
    detached         \* detach_kernel_driver succeeded in this run

ctl == <<pc, panicking, outcome, constructed>>
sess == <<cmd_token, has_kernel_driver, target_id>>
orch == <<page_size, image, fw_pages, i, erased_sectors, read>>
exch == <<xpos, xcmd, xbuf, xres, stat, wire>>
usb == <<device, driver, claimed, detached>>
hist == <<tokens, nAcks, xfers, ops, teardown>>
vars == <<ctl, sess, orch, exch, usb, flash, programmed, hist>>

NoCmd == [token |-> 0, cmd_id |-> CmdUnknown, cmd_size |-> 0,
          transfer_len |-> 0, args |-> <<0, 0, 0, 0>>]
NoStat == [status_code |-> 0, cmd_id |-> 0, in_progress |-> 0]
NoWrite == [addr |-> 0, len |-> 0, erased |-> FALSE, stored |-> FALSE]

Fills == 0..MaxFill
\* The images of a flashing run: whole blocks, and one byte into the next.
RunLens(B) == {l \in 0..(MaxBlocks * B) : l % B \in {0, 1}}

Init ==
    /\ pc = "new_open"
    /\ panicking = FALSE
    /\ outcome = "running"
    /\ constructed = FALSE
    /\ cmd_token = 0
    /\ has_kernel_driver = FALSE
    /\ target_id = "None"
    /\ page_size \in PageSizes
    /\ \E l \in RunLens(page_size) : image = MakeImage(1, l)
    /\ fw_pages = <<>>
    /\ i = 0
    /\ erased_sectors = <<>>
    /\ read = <<>>
    /\ xpos = "idle"
    /\ xcmd = NoCmd
    /\ xbuf = <<>>
    /\ xres = <<>>
    /\ stat = NoStat
    /\ wire = <<>>
    /\ device \in {"Rp2040", "Rp2350", "none"}
    /\ driver \in {"bound", "none"}
    /\ claimed = FALSE
    /\ flash = [a \in {} |-> 0]
    /\ programmed = NoWrite
    /\ tokens = <<>>
    /\ nAcks = 0
    /\ xfers = 0
    /\ ops = <<>>
    /\ teardown = <<>>
    /\ detached = FALSE

\* ------------------------------------------------------------ panics
\* A panic unwinds main.  The locals of main are dropped: conn, when it
\* exists, through Drop for PicobootConnection.  Before new() has returned
\* there is no PicobootConnection; only the rusb handle is dropped, which
\* gives the interface back and closes the device.
Panic ==
    /\ panicking' = TRUE
    /\ outcome' = "panic"
    /\ constructed' = constructed
    /\ pc' = IF constructed THEN "drop_release" ELSE "exit"

PanicBeforeConn ==
    /\ Panic
    /\ claimed' = FALSE


\* ------------------------------------------------------------ PicobootConnection::new
\* open_device for the two product ids, then get_endpoint twice and the
\* comparison of what they found.
NewOpen ==
    /\ pc = "new_open"
    /\ \/ /\ device # "none"
          /\ target_id' = device
          /\ pc' = "new_kd"
          /\ UNCHANGED <<panicking, outcome, constructed, claimed>>
       \/ \* no device, open() failed, or the endpoints are missing or differ
          /\ PanicBeforeConn
          /\ UNCHANGED target_id
    /\ UNCHANGED <<cmd_token, has_kernel_driver, orch, exch, device, driver,
                   detached, flash, programmed, hist>>

\* kernel_driver_active(iface); on Ok(true), detach_kernel_driver(iface).
NewKernelDriver ==
    /\ pc = "new_kd"
    /\ \E active \in (IF driver = "bound" THEN {"true", "err"} ELSE {"false", "err"}) :
         IF active = "true"
         THEN \/ /\ driver' = "detached"
                 /\ detached' = TRUE
                 /\ has_kernel_driver' = TRUE
                 /\ pc' = "new_cfg"
                 /\ UNCHANGED <<panicking, outcome, constructed, claimed>>
              \/ \* could not detach kernel driver
                 /\ PanicBeforeConn
                 /\ UNCHANGED <<driver, detached, has_kernel_driver>>
         ELSE /\ has_kernel_driver' = FALSE
              /\ pc' = "new_cfg"
              /\ UNCHANGED <<panicking, outcome, constructed, claimed, driver, detached>>
    /\ UNCHANGED <<cmd_token, target_id, orch, exch, device, flash, programmed, hist>>

\* set_active_configuration(cfg)
NewConfigure ==
    /\ pc = "new_cfg"
    /\ \/ /\ pc' = "new_claim"
          /\ UNCHANGED <<panicking, outcome, constructed, claimed>>
       \/ PanicBeforeConn
    /\ UNCHANGED <<sess, orch, exch, device, driver, detached, flash, programmed, hist>>

\* claim_interface(iface)
NewClaim ==
    /\ pc = "new_claim"
    /\ \/ /\ claimed' = TRUE
          /\ pc' = "new_alt"
          /\ UNCHANGED <<panicking, outcome, constructed>>
       \/ PanicBeforeConn
    /\ UNCHANGED <<sess, orch, exch, device, driver, detached, flash, programmed, hist>>

\* The first token of a session.
FirstToken == 1

\* set_alternate_setting(iface, setting), then the struct is built.
NewAltSetting ==
    /\ pc = "new_alt"
    /\ \/ /\ constructed' = TRUE
          /\ cmd_token' = FirstToken
          /\ pc' = "load"
          /\ UNCHANGED <<panicking, outcome, claimed>>
       \/ /\ PanicBeforeConn
          /\ UNCHANGED cmd_token
    /\ UNCHANGED <<has_kernel_driver, target_id, orch, exch, device, driver,
                   detached, flash, programmed, hist>>

\* ------------------------------------------------------------ Drop
\* release_interface(iface).expect(..): a failure panics inside drop, and
\* the rest of drop does not run; a panic while unwinding aborts.
DropRelease ==
    /\ pc = "drop_release"
    /\ teardown' = Append(teardown, "release")
    /\ \/ /\ claimed' = FALSE
          /\ pc' = IF has_kernel_driver THEN "drop_attach" ELSE "exit"
          /\ UNCHANGED <<panicking, outcome>>
       \/ /\ pc' = "exit"
          /\ outcome' = IF panicking THEN "abort" ELSE "panic"
          /\ panicking' = TRUE
          /\ UNCHANGED claimed
    /\ UNCHANGED <<constructed, sess, orch, exch, device, driver, detached,
                   flash, programmed, tokens, nAcks, xfers, ops>>

\* if has_kernel_driver: attach_kernel_driver(iface).expect(..)
DropAttach ==
    /\ pc = "drop_attach"
    /\ teardown' = Append(teardown, "attach")
    /\ pc' = "exit"
    /\ \/ /\ driver' = "bound"
          /\ UNCHANGED <<panicking, outcome>>
       \/ /\ outcome' = IF panicking THEN "abort" ELSE "panic"
          /\ panicking' = TRUE
          /\ UNCHANGED driver
    /\ UNCHANGED <<constructed, sess, orch, exch, device, claimed, detached,
                   flash, programmed, tokens, nAcks, xfers, ops>>


\* ------------------------------------------------------------ transport
\* What a transfer can come to: all bytes, fewer bytes, or a libusb error.
Outcomes == {"ok", "short", "err"}

\* The byte count libusb reports (-1: the call returned Err).
Got(req, r) == IF r = "ok" THEN req ELSE IF r = "short" THEN req - 1 ELSE -1

\* A faulty variant: the byte count is never compared.
BulkFatal_NoLengthCheck(check, req, got) == got < 0

\* bulk_read / bulk_write: .expect(..) on the transfer, then the length
\* check when `check` is set.  TRUE when the call panics.
BulkFatal(check, req, got) == got < 0 \/ (check /\ got # req)

\* The serialized PicobootCmd and the status buffer, in bytes.
HeaderLen == 32
StatusLen == 16

\* The status replies the device may give: the status codes Ok,
\* BadAlignment and the undefined 18; the id of the command and the
\* undefined 0x0E; either in-progress flag.
StatusReplies(cmd) ==
    [status_code : {StatusOk, StatusBadAlignment, StatusUnsupportedModification,
                    StatusUnsupportedModification + 1},
     cmd_id : {cmd.cmd_id, 14},
     in_progress : {0, 1}]

\* get_command_status: the two try_from(..).unwrap() of the println.
StatusDecodes(reply) == StatusDefined(reply.status_code) /\ CmdIdDefined(reply.cmd_id)

\* ------------------------------------------------------------ the device
FlashAt(f, a) == IF a \in DOMAIN f THEN f[a] ELSE 0

Range(addr, n) == addr..(addr + n - 1)

\* A flash erase the device accepts sets the range to 0xFF; one that is not
\* aligned to sectors is refused.
DeviceErase(f, addr, size) ==
    IF addr % PICO_SECTOR_SIZE = 0 /\ size % PICO_SECTOR_SIZE = 0
    THEN [a \in (DOMAIN f) \cup Range(addr, size) |->
            IF a \in Range(addr, size) THEN 255 ELSE f[a]]
    ELSE f

\* Programming flash can only clear bits.
DeviceWrite(f, addr, buf) ==
    [a \in (DOMAIN f) \cup Range(addr, Len(buf)) |->
        IF a \in Range(addr, Len(buf))
        THEN BitAnd(FlashAt(f, a), buf[a - addr + 1])
        ELSE f[a]]

\* The range holds nothing but erased bytes.
IsErased(f, addr, n) == \A a \in Range(addr, n) : FlashAt(f, a) = 255

DeviceRead(f, addr, n) == [j \in 1..n |-> FlashAt(f, addr + j - 1)]

\* ------------------------------------------------------------ PicobootConnection::cmd
\* A faulty variant: the counter is advanced twice.
NextToken_Twice(t) == t + 2

\* A faulty variant: the counter is not advanced.
NextToken_NoIncrement(t) == t

\* self.cmd_token = self.cmd_token + 1
NextToken(t) == t + 1

\* A faulty variant: a command of the write side always has a data phase.
HasDataPhase_WriteAlways(cmd) == cmd.transfer_len # 0 \/ ~HighBit(cmd.cmd_id)

\* if l != 0
HasDataPhase(cmd) == cmd.transfer_len # 0

\* A faulty variant: every data phase is a write of the caller's buffer.
DataDir_AlwaysOut(cmd) == "out"

\* The direction of the data phase: (cmd.cmd_id & 0x80) != 0 reads.
DataDir(cmd) == IF HighBit(cmd.cmd_id) THEN "in" ELSE "out"

\* A faulty variant: the acknowledgment goes the way of the data phase.
AckDir_SameWay(cmd) == IF HighBit(cmd.cmd_id) THEN "in" ELSE "out"

\* The direction of the acknowledgment: (cmd.cmd_id & 0x80) != 0 writes.
AckDir(cmd) == IF HighBit(cmd.cmd_id) THEN "out" ELSE "in"

\* A faulty variant: the data phase is not length-checked.
Checked_HeaderOnly(what) == what = "header"

\* The check flag of each transfer of cmd.
Checked(what) == what \in {"header", "data"}

\* A faulty variant: the status is polled twice whether or not there is a
\* data phase.
AfterStat_PollTwice(pos, cmd) ==
    IF pos = "stat1" THEN (IF HasDataPhase(cmd) THEN "data" ELSE "stat2")
    ELSE "ack"

\* A faulty variant: a command without data phase returns after the poll.
AfterStat_NoAck(pos, cmd) ==
    IF pos = "stat1" /\ HasDataPhase(cmd) THEN "data"
    ELSE IF pos = "stat1" THEN "done" ELSE "ack"

\* The step of cmd after the first status poll, and after the second.
AfterStat(pos, cmd) ==
    IF pos = "stat1" /\ HasDataPhase(cmd) THEN "data" ELSE "ack"

\* One transfer of an exchange: what it is for, its direction, the bytes
\* asked for and moved (-1: error), whether the status reply it carried
\* decodes, and its number among the transfers of the session.
Xfer(what, dir, req, got, decodes) ==
    [what |-> what, dir |-> dir, req |-> req, got |-> got, decodes |-> decodes,
     n |-> xfers + 1]

\* PicobootCmd::new, and the first two lines of cmd: the token is taken and
\* the counter advanced.
BeginCmd(cmd_id, cmd_size, transfer_len, args, buf) ==
    /\ xcmd' = [token |-> cmd_token, cmd_id |-> cmd_id, cmd_size |-> cmd_size,
                transfer_len |-> transfer_len, args |-> args]
    /\ cmd_token' = NextToken(cmd_token)
    /\ xbuf' = buf
    /\ xres' = <<>>
    /\ stat' = NoStat
    /\ wire' = <<>>
    /\ xpos' = "header"

\* set_exclusive_access(exclusive)
set_exclusive_access(exclusive) ==
    BeginCmd(CmdExclusiveAccess, 1, 0, <<exclusive, 0, 0, 0>>, <<>>)

\* reboot(pc, sp, delay)
reboot(rpc, sp, delay) == BeginCmd(CmdReboot, 12, 0, <<rpc, sp, delay, 0>>, <<>>)

\* A faulty variant: the delay is serialised in the place of the flags.
reboot2_normal_DelayFirst(delay) ==
    BeginCmd(CmdReboot2, 16, 0, <<delay, 0, 0, 0>>, <<>>)

\* reboot2_normal(delay)
reboot2_normal(delay) == BeginCmd(CmdReboot2, 16, 0, <<0, delay, 0, 0>>, <<>>)

\* flash_erase(addr, size)
flash_erase(addr, size) == BeginCmd(CmdFlashErase, 8, 0, <<addr, size, 0, 0>>, <<>>)

\* flash_write(addr, buf)
flash_write(addr, buf) == BeginCmd(CmdWrite, 8, Len(buf), <<addr, Len(buf), 0, 0>>, buf)

\* A faulty variant: the address and the size change places in the arguments.
flash_read_SwappedArgs(addr, size) ==
    BeginCmd(CmdRead, 8, size, <<size, addr, 0, 0>>, <<>>)

\* flash_read(addr, size)
flash_read(addr, size) == BeginCmd(CmdRead, 8, size, <<addr, size, 0, 0>>, <<>>)

InCmd(pos) == xpos = pos /\ ~panicking /\ pc \notin {"drop_release", "drop_attach", "exit"}

\* self.bulk_write(cmdu8, true)
CmdHeader ==
    /\ InCmd("header")
    /\ \E r \in Outcomes :
         LET got == Got(HeaderLen, r) IN
         /\ wire' = Append(wire, Xfer("header", "out", HeaderLen, got, TRUE))
         /\ tokens' = Append(tokens, xcmd.token)
         /\ xfers' = xfers + 1
         /\ IF BulkFatal(Checked("header"), HeaderLen, got)
            THEN /\ Panic
                 /\ UNCHANGED <<xpos, flash, programmed>>
            ELSE /\ xpos' = "stat1"
                 /\ flash' = IF xcmd.cmd_id = CmdFlashErase
                             THEN DeviceErase(flash, xcmd.args[1], xcmd.args[2])
                             ELSE flash
                 /\ UNCHANGED ctl
    /\ UNCHANGED <<sess, orch, xcmd, xbuf, xres, stat, usb, programmed, nAcks,
                   ops, teardown>>

\* get_command_status: read_control(..).expect(..); the count it returns is
\* not looked at; the reply is decoded for the log line.
CmdStatus ==
    /\ \/ InCmd("stat1")
       \/ InCmd("stat2")
    /\ \E r \in Outcomes : \E reply \in StatusReplies(xcmd) :
         LET got == Got(StatusLen, r) IN
         /\ wire' = Append(wire, Xfer("status", "in", StatusLen, got, got < 0 \/ StatusDecodes(reply)))
         /\ xfers' = xfers + 1
         /\ IF got < 0 \/ ~StatusDecodes(reply)
            THEN /\ Panic
                 /\ stat' = IF got < 0 THEN stat ELSE reply
                 /\ UNCHANGED xpos
            ELSE /\ stat' = reply
                 /\ xpos' = AfterStat(xpos, xcmd)
                 /\ UNCHANGED ctl
    /\ UNCHANGED <<sess, orch, xcmd, xbuf, xres, usb, flash, programmed, tokens, nAcks, ops, teardown>>

\* The data phase: bulk_read(l, true) or bulk_write(buf, true).  The device
\* programs what it was sent, unless it refuses the write.
CmdData ==
    /\ InCmd("data")
    /\ \E r \in Outcomes :
         LET req == IF DataDir(xcmd) = "in" THEN xcmd.transfer_len ELSE Len(xbuf)
             got == Got(req, r) IN
         /\ wire' = Append(wire, Xfer("data", DataDir(xcmd), req, got, TRUE))
         /\ xfers' = xfers + 1
         /\ IF BulkFatal(Checked("data"), req, got)
            THEN /\ Panic
                 /\ UNCHANGED <<xpos, xres, flash, programmed>>
            ELSE /\ xpos' = "stat2"
                 /\ UNCHANGED ctl
                 /\ IF DataDir(xcmd) = "in"
                    THEN /\ xres' = DeviceRead(flash, xcmd.args[1], got)
                         /\ UNCHANGED <<flash, programmed>>
                    ELSE /\ UNCHANGED xres
                         /\ \E stored \in BOOLEAN :
                              /\ flash' = IF stored
                                          THEN DeviceWrite(flash, xcmd.args[1], xbuf)
                                          ELSE flash
                              /\ programmed' =
                                    [addr |-> xcmd.args[1], len |-> Len(xbuf),
                                     erased |-> IsErased(flash, xcmd.args[1], Len(xbuf)),
                                     stored |-> stored]
    /\ UNCHANGED <<sess, orch, xcmd, xbuf, stat, usb, tokens, nAcks, ops, teardown>>

\* The acknowledgment: bulk_write(vec![0], false) or bulk_read(1, false).
CmdAck ==
    /\ InCmd("ack")
    /\ \E r \in Outcomes :
         LET got == Got(1, r) IN
         /\ wire' = Append(wire, Xfer("ack", AckDir(xcmd), 1, got, TRUE))
         /\ xfers' = xfers + 1
         /\ IF BulkFatal(Checked("ack"), 1, got)
            THEN /\ Panic
                 /\ UNCHANGED <<xpos, nAcks>>
            ELSE /\ xpos' = "done"
                 /\ nAcks' = nAcks + 1
                 /\ UNCHANGED ctl
    /\ UNCHANGED <<sess, orch, xcmd, xbuf, xres, stat, usb, flash, programmed, tokens, ops, teardown>>


\* ------------------------------------------------------------ main
Op(op, addr, len) == [op |-> op, addr |-> addr, len |-> len]

\* get_device_type, fs::read(fw_name).unwrap(), uf2_pages(fw).unwrap()
Load ==
    /\ pc = "load"
    /\ \/ /\ fw_pages' = uf2_pages(image, page_size)
          /\ pc' = "reset"
          /\ UNCHANGED <<panicking, outcome, constructed>>
       \/ \* the file cannot be read, or is no uf2 container
          /\ Panic
          /\ UNCHANGED fw_pages
    /\ UNCHANGED <<sess, page_size, image, i, erased_sectors, read, exch, usb,
                   flash, programmed, hist>>

\* A faulty variant: main goes on to the first command without the reset.
ResetInterface_Skipped ==
    /\ pc = "reset"
    /\ pc' = "access"
    /\ UNCHANGED <<panicking, outcome, constructed, sess, orch, exch, usb,
                   flash, programmed, hist>>

\* conn.reset_interface(): clear_halt twice and the reset control transfer,
\* each with .expect(..)
ResetInterface ==
    /\ pc = "reset"
    /\ ops' = Append(ops, Op("reset", 0, 0))
    /\ \/ /\ pc' = "access"
          /\ UNCHANGED <<panicking, outcome, constructed>>
       \/ Panic
    /\ UNCHANGED <<sess, orch, exch, usb, flash, programmed, tokens, nAcks,
                   xfers, teardown>>

\* conn.access_exclusive_eject(): set_exclusive_access(2)
AccessCall ==
    /\ pc = "access"
    /\ set_exclusive_access(2)
    /\ ops' = Append(ops, Op("access", 0, 0))
    /\ pc' = "access_wait"
    /\ UNCHANGED <<panicking, outcome, constructed, has_kernel_driver, target_id,
                   orch, usb, flash, programmed, tokens, nAcks, xfers, teardown>>

\* .expect("failed to claim access"); let mut erased_sectors = vec!()
AccessReturn ==
    /\ pc = "access_wait"
    /\ InCmd("done")
    /\ xpos' = "idle"
    /\ erased_sectors' = <<>>
    /\ i' = 0
    /\ pc' = "block"
    /\ UNCHANGED <<panicking, outcome, constructed, sess, page_size, image,
                   fw_pages, read, xcmd, xbuf, xres, stat, wire, usb, flash, programmed, hist>>

\* A faulty variant: the blocks are addressed one block too far.
BlockAddr_NextBlock(k, B) == (k + 1) * B + PICO_FLASH_START

\* let addr = (i * PICO_PAGE_SIZE) as u32 + PICO_FLASH_START
BlockAddr(k, B) == k * B + PICO_FLASH_START

\* A faulty variant: the block address is taken for the sector address.
SectorAddr_Unaligned(addr) == addr

\* let sector_addr = addr - (addr % PICO_SECTOR_SIZE)
SectorAddr(addr) == addr - (addr % PICO_SECTOR_SIZE)

Contains(seq, x) == \E k \in 1..Len(seq) : seq[k] = x

\* A faulty variant: every block erases its sector.
NeedsErase_Always(sectors, sector_addr) == TRUE

\* A faulty variant: only the first sector of a pass is erased.
NeedsErase_FirstOnly(sectors, sector_addr) == sectors = <<>>

\* if !erased_sectors.contains(&sector_addr)
NeedsErase(sectors, sector_addr) == ~Contains(sectors, sector_addr)

\* The address main hands to flash_erase.
EraseAddr(addr) == addr

\* The head of the loop body: the sector of the block is erased unless it
\* is in erased_sectors.
BlockBegin ==
    /\ pc = "block"
    /\ xpos = "idle"
    /\ i < Len(fw_pages)
    /\ LET addr == BlockAddr(i, page_size) IN
       IF NeedsErase(erased_sectors, SectorAddr(addr))
       THEN /\ flash_erase(EraseAddr(addr), PICO_SECTOR_SIZE)
            /\ ops' = Append(ops, Op("erase", EraseAddr(addr), PICO_SECTOR_SIZE))
            /\ pc' = "erase_wait"
       ELSE /\ pc' = "write"
            /\ UNCHANGED <<cmd_token, exch, ops>>
    /\ UNCHANGED <<panicking, outcome, constructed, has_kernel_driver, target_id,
                   orch, usb, flash, programmed, tokens, nAcks, xfers, teardown>>

\* A faulty variant: the erased sector is not recorded.
EraseReturn_NoPush ==
    /\ pc = "erase_wait"
    /\ InCmd("done")
    /\ xpos' = "idle"
    /\ pc' = "write"
    /\ UNCHANGED <<panicking, outcome, constructed, sess, orch, xcmd, xbuf,
                   xres, stat, wire, usb, flash, programmed, hist>>

\* .expect("failed to erase flash"); erased_sectors.push(sector_addr)
EraseReturn ==
    /\ pc = "erase_wait"
    /\ InCmd("done")
    /\ xpos' = "idle"
    /\ erased_sectors' = Append(erased_sectors, SectorAddr(BlockAddr(i, page_size)))
    /\ pc' = "write"
    /\ UNCHANGED <<panicking, outcome, constructed, sess, page_size, image,
                   fw_pages, i, read, xcmd, xbuf, xres, stat, wire, usb, flash, programmed, hist>>

\* conn.flash_write(addr, page.to_vec())
WriteCall ==
    /\ pc = "write"
    /\ LET addr == BlockAddr(i, page_size)
           page == fw_pages[i + 1] IN
       /\ flash_write(addr, page)
       /\ ops' = Append(ops, Op("write", addr, Len(page)))
    /\ pc' = "write_wait"
    /\ UNCHANGED <<panicking, outcome, constructed, has_kernel_driver, target_id,
                   orch, usb, flash, programmed, tokens, nAcks, xfers, teardown>>

\* .expect("failed to write flash"); conn.flash_read(addr, size)
WriteReturn ==
    /\ pc = "write_wait"
    /\ InCmd("done")
    /\ LET addr == BlockAddr(i, page_size) IN
       /\ flash_read(addr, page_size)
       /\ ops' = Append(ops, Op("read", addr, page_size))
    /\ pc' = "read_wait"
    /\ UNCHANGED <<panicking, outcome, constructed, has_kernel_driver, target_id,
                   orch, usb, flash, programmed, tokens, nAcks, xfers, teardown>>

\* A faulty variant: the pairs are counted without being compared.
Matching_LengthOnly(page, rd) == Min(Len(page), Len(rd))

\* page.iter().zip(&read).filter(|&(a, b)| a == b).count()
Matching(page, rd) ==
    Cardinality({k \in 1..Min(Len(page), Len(rd)) : page[k] = rd[k]})

\* let read = ..expect("failed to read flash"); the comparison; the next block
ReadReturn ==
    /\ pc = "read_wait"
    /\ InCmd("done")
    /\ read' = xres
    /\ xpos' = "idle"
    /\ IF Matching(fw_pages[i + 1], xres) # page_size
       THEN /\ Panic
            /\ UNCHANGED i
       ELSE /\ i' = i + 1
            /\ pc' = "block"
            /\ UNCHANGED <<panicking, outcome, constructed>>
    /\ UNCHANGED <<sess, page_size, image, fw_pages, erased_sectors, xcmd, xbuf,
                   xres, stat, wire, usb, flash, programmed, hist>>

\* After the loop: reboot(0x0, PICO_STACK_POINTER, 500) on the RP2040,
\* reboot2_normal(500) on the RP2350.
RebootDelay == 500

RebootCall ==
    /\ pc = "block"
    /\ xpos = "idle"
    /\ i >= Len(fw_pages)
    /\ IF target_id = "Rp2040"
       THEN /\ reboot(0, PICO_STACK_POINTER, RebootDelay)
            /\ ops' = Append(ops, Op("reboot", 0, 0))
       ELSE /\ reboot2_normal(RebootDelay)
            /\ ops' = Append(ops, Op("reboot2", 0, 0))
    /\ pc' = "reboot_wait"
    /\ UNCHANGED <<panicking, outcome, constructed, has_kernel_driver, target_id,
                   orch, usb, flash, programmed, tokens, nAcks, xfers, teardown>>

\* .expect("failed to reboot device"); main returns and conn is dropped.
RebootReturn ==
    /\ pc = "reboot_wait"
    /\ InCmd("done")
    /\ xpos' = "idle"
    /\ outcome' = "ok"
    /\ pc' = "drop_release"
    /\ UNCHANGED <<panicking, constructed, sess, orch, xcmd, xbuf, xres, stat,
                   wire, usb, flash, programmed, hist>>

Next ==
    \/ NewOpen
    \/ NewKernelDriver
    \/ NewConfigure
    \/ NewClaim
    \/ NewAltSetting
    \/ Load
    \/ ResetInterface
    \/ AccessCall
    \/ AccessReturn
    \/ BlockBegin
    \/ EraseReturn
    \/ WriteCall
    \/ WriteReturn
    \/ ReadReturn
    \/ RebootCall
    \/ RebootReturn
    \/ CmdHeader
    \/ CmdStatus
    \/ CmdData
    \/ CmdAck
    \/ DropRelease
    \/ DropAttach

Spec == Init /\ [][Next]_vars


\* ------------------------------------------------------------ a client of the session
\* The public operations of PicobootConnection, called in any order on a
\* constructed session; ops is the log of the client's last two calls.
ApiAddrs == {PICO_FLASH_START}
ApiBuf(n) == [j \in 1..n |-> ImageByte(1, j)]
Logged(call) == IF ops = <<>> THEN <<call>> ELSE <<ops[Len(ops)], call>>

InitSession ==
    /\ pc = "api"
    /\ panicking = FALSE
    /\ outcome = "running"
    /\ constructed = TRUE
    /\ cmd_token = FirstToken
    /\ has_kernel_driver \in BOOLEAN
    /\ device \in {"Rp2040", "Rp2350"}
    /\ target_id = device
    /\ page_size = PICO_SECTOR_SIZE
    /\ image = <<>>
    /\ fw_pages = <<>>
    /\ i = 0
    /\ erased_sectors = <<>>
    /\ read = <<>>
    /\ xpos = "idle"
    /\ xcmd = NoCmd
    /\ xbuf = <<>>
    /\ xres = <<>>
    /\ stat = NoStat
    /\ wire = <<>>
    /\ driver = IF has_kernel_driver THEN "detached" ELSE "none"
    /\ detached = has_kernel_driver
    /\ claimed = TRUE
    /\ flash \in {[a \in {} |-> 0],
                  [a \in Range(PICO_FLASH_START, PICO_SECTOR_SIZE) |-> 255]}
    /\ programmed = NoWrite
    /\ tokens = <<>>
    /\ nAcks = 0
    /\ xfers = 0
    /\ ops = <<>>
    /\ teardown = <<>>

ApiCall ==
    /\ pc = "api"
    /\ xpos = "idle"
    /\ Len(tokens) < MaxCalls
    /\ \/ \E mode \in {0, 1, 2} :
            /\ set_exclusive_access(mode)
            /\ ops' = Logged(Op("access", mode, 0))
       \/ \E addr \in ApiAddrs :
            /\ flash_erase(addr, PICO_SECTOR_SIZE)
            /\ ops' = Logged(Op("erase", addr, PICO_SECTOR_SIZE))
       \/ \E addr \in ApiAddrs : \E n \in 0..MaxBuf :
            /\ flash_write(addr, ApiBuf(n))
            /\ ops' = Logged(Op("write", addr, n))
       \/ \E addr \in ApiAddrs : \E n \in 0..MaxBuf :
            /\ flash_read(addr, n)
            /\ ops' = Logged(Op("read", addr, n))
       \/ /\ reboot(0, PICO_STACK_POINTER, RebootDelay)
          /\ ops' = Logged(Op("reboot", 0, 0))
       \/ /\ reboot2_normal(RebootDelay)
          /\ ops' = Logged(Op("reboot2", 0, 0))
    /\ pc' = "api_wait"
    /\ UNCHANGED <<panicking, outcome, constructed, has_kernel_driver, target_id,
                   orch, usb, flash, programmed, tokens, nAcks, xfers, teardown>>

ApiReturn ==
    /\ pc = "api_wait"
    /\ InCmd("done")
    /\ read' = xres
    /\ xpos' = "idle"
    /\ pc' = "api"
    /\ UNCHANGED <<panicking, outcome, constructed, sess, page_size, image,
                   fw_pages, i, erased_sectors, xcmd, xbuf, xres, stat, wire,
                   usb, flash, programmed, hist>>

\* The client lets go of the session: conn is dropped.
ApiClose ==
    /\ pc = "api"
    /\ xpos = "idle"
    /\ outcome' = "ok"
    /\ pc' = "drop_release"
    /\ UNCHANGED <<panicking, constructed, sess, orch, exch, usb, flash, programmed, hist>>

NextSession ==
    \/ ApiCall
    \/ ApiReturn
    \/ ApiClose
    \/ CmdHeader
    \/ CmdStatus
    \/ CmdData
    \/ CmdAck
    \/ DropRelease
    \/ DropAttach

SpecSession == InitSession /\ [][NextSession]_vars

\* ------------------------------------------------------------ uf2_pages alone
\* uf2_pages applied to every image up to MaxBlocks blocks, of every fill.
InitPages ==
    /\ pc = "pages"
    /\ panicking = FALSE
    /\ outcome = "running"
    /\ constructed = FALSE
    /\ cmd_token = 0
    /\ has_kernel_driver = FALSE
    /\ target_id = "None"
    /\ page_size \in PageSizes
    /\ \E f \in Fills : \E l \in ImageLens(page_size) : image = MakeImage(f, l)
    /\ fw_pages = <<>>
    /\ i = 0
    /\ erased_sectors = <<>>
    /\ read = <<>>
    /\ xpos = "idle"
    /\ xcmd = NoCmd
    /\ xbuf = <<>>
    /\ xres = <<>>
    /\ stat = NoStat
    /\ wire = <<>>
    /\ device = "none"
    /\ driver = "none"
    /\ claimed = FALSE
    /\ flash = [a \in {} |-> 0]
    /\ programmed = NoWrite
    /\ tokens = <<>>
    /\ nAcks = 0
    /\ xfers = 0
    /\ ops = <<>>
    /\ teardown = <<>>
    /\ detached = FALSE

SlicePages ==
    /\ pc = "pages"
    /\ fw_pages' = uf2_pages(image, page_size)
    /\ pc' = "paged"
    /\ UNCHANGED <<panicking, outcome, constructed, sess, page_size, image, i,
                   erased_sectors, read, exch, usb, flash, programmed, hist>>

SpecPages == InitPages /\ [][SlicePages]_vars


\* ============================================================ properties
WireHas(what) == \E k \in 1..Len(wire) : wire[k].what = what

\* Bit 0x80 of a command identifier (a byte).
ReadSide(cmd_id) == cmd_id >= 128

OpsOf(op) == {k \in 1..Len(ops) : ops[k].op = op}

\* ------------------------------------------------------------ C1
\* C1: within one session the token of every header sent is strictly
\* greater than the token of every header sent before it; none repeats.
C1_TokensIncrease ==
    \A a, b \in 1..Len(tokens) : a < b => tokens[a] < tokens[b]

\* Access, erase, write and read headers have gone out.
C1_Witness ==
    /\ Len(tokens) >= 4
    /\ xcmd.cmd_id = CmdRead
    /\ xpos = "done"

\* ------------------------------------------------------------ C2
\* C2: an exchange has a data-phase transfer if and only if transfer_len is
\* not zero; it is a bulk-IN read of transfer_len bytes when bit 0x80 of the
\* command identifier is set and a bulk-OUT write of the caller's buffer
\* when it is clear.
C2_DataPhase ==
    /\ \A k \in 1..Len(wire) :
         wire[k].what = "data" =>
            /\ xcmd.transfer_len # 0
            /\ wire[k].dir = (IF ReadSide(xcmd.cmd_id) THEN "in" ELSE "out")
            /\ wire[k].dir = "in" => wire[k].req = xcmd.transfer_len
            /\ wire[k].dir = "out" => wire[k].req = Len(xbuf)
    /\ Cardinality({k \in 1..Len(wire) : wire[k].what = "data"}) <= 1
    /\ (xpos \in {"ack", "done"} /\ xcmd.transfer_len # 0) => WireHas("data")
    /\ (xcmd.transfer_len = 0) => ~WireHas("data")

\* A flash_read of one byte or more has completed with its bulk-IN read.
C2_Witness ==
    /\ xpos = "done"
    /\ xcmd.cmd_id = CmdRead
    /\ xcmd.transfer_len > 0
    /\ \E k \in 1..Len(wire) : wire[k].what = "data" /\ wire[k].dir = "in"

\* ------------------------------------------------------------ C3
\* C3: the acknowledgment of an exchange goes the opposite way to its
\* data-phase transfer, or, without a data phase, opposite to the way the
\* high bit of the command identifier indicates (set: bulk-OUT of one byte,
\* clear: bulk-IN of one byte).
C3_AckOpposite ==
    \A k \in 1..Len(wire) :
        wire[k].what = "ack" =>
            /\ wire[k].req = 1
            /\ IF \E j \in 1..(k - 1) : wire[j].what = "data"
               THEN \A j \in 1..(k - 1) :
                        wire[j].what = "data" => wire[k].dir # wire[j].dir
               ELSE wire[k].dir = (IF ReadSide(xcmd.cmd_id) THEN "out" ELSE "in")

\* A flash_write has completed: bulk-OUT data, then the bulk-IN acknowledgment.
C3_Witness ==
    /\ xpos = "done"
    /\ xcmd.cmd_id = CmdWrite
    /\ WireHas("data")
    /\ wire[Len(wire)].what = "ack"
    /\ wire[Len(wire)].dir = "in"

\* ------------------------------------------------------------ C4
\* C4: in one pass no two erase calls target the same sector.
C4_EraseOnce ==
    \A a, b \in OpsOf("erase") :
        a # b => SectorAddr(ops[a].addr) # SectorAddr(ops[b].addr)

\* Two sectors were erased in a pass whose blocks are smaller than a sector,
\* so that a block found its sector erased already.
C4_Witness ==
    /\ Cardinality(OpsOf("erase")) >= 2
    /\ Cardinality(OpsOf("write")) >= 3
    /\ page_size < PICO_SECTOR_SIZE

\* ------------------------------------------------------------ C5
\* The sector bases a range of len bytes at addr lies in.
SectorsOf(addr, len) ==
    {s \in SectorAddr(addr)..(addr + len - 1) : s % PICO_SECTOR_SIZE = 0}

\* C5: every write of a pass comes after erase calls of the same pass that
\* cover every sector the written range lies in.
C5_EraseBeforeWrite ==
    \A k \in OpsOf("write") :
        \A s \in SectorsOf(ops[k].addr, ops[k].len) :
            \E j \in OpsOf("erase") :
                /\ j < k
                /\ ops[j].addr <= s
                /\ s + PICO_SECTOR_SIZE <= ops[j].addr + ops[j].len

\* A block that is not the first of its sector has been written.
C5_Witness ==
    \E k \in OpsOf("write") :
        /\ ops[k].addr % PICO_SECTOR_SIZE # 0
        /\ ops[k].len = page_size


\* ------------------------------------------------------------ C6
\* C6: on every exit path the claimed interface is given back and the kernel
\* driver, if it was detached, is attached again.
C6_TeardownOnEveryExit ==
    pc = "exit" =>
        /\ ~claimed \/ Contains(teardown, "release")
        /\ detached => Contains(teardown, "attach")

\* ------------------------------------------------------------ C7
C7_Mismatch(e) ==
    /\ e.dir = "out"
    /\ e.what \in {"header", "data"}
    /\ e.got >= 0
    /\ e.got # e.req

C7_Hit == \E k \in 1..Len(wire) : C7_Mismatch(wire[k])

C7_Fatal ==
    C7_Hit =>
        /\ panicking
        /\ outcome \in {"panic", "abort"}
        /\ pc \in {"drop_release", "drop_attach", "exit"}
        /\ xpos # "done"
        /\ C7_Mismatch(wire[Len(wire)])
        /\ wire[Len(wire)].n = xfers
        /\ pc # "drop_release" => Contains(teardown, "release")

C7_NothingAfter ==
    C7_Hit => /\ wire' = wire
              /\ xfers' = xfers
              /\ tokens' = tokens
              /\ xpos' = xpos

\* C7: a checked bulk-OUT write (the header, the write data phase) that
\* moves fewer bytes than asked ends the run as a panic; no transfer of this
\* or a later exchange follows; the teardown calls release_interface.
C7_WriteMismatchFatal == []C7_Fatal /\ [][C7_NothingAfter]_vars

\* A run has ended after a short write of a data phase, the interface
\* released by Drop.
C7_Witness ==
    /\ C7_Hit
    /\ wire[Len(wire)].what = "data"
    /\ pc = "exit"
    /\ Contains(teardown, "release")
    /\ ~claimed

\* ------------------------------------------------------------ C8
\* C8 as stated: every transfer of an exchange is fatal on error and on a
\* byte count that differs from the one asked for.
C8_EveryMismatchFatal ==
    \A k \in 1..Len(wire) :
        wire[k].got # wire[k].req =>
            /\ panicking
            /\ k = Len(wire)
            /\ xpos # "done"

\* What ends an exchange: a transport error on any transfer, a byte count
\* that differs on the header or the data phase, a status reply that does
\* not decode.
C8_Ends(e) ==
    \/ e.got < 0
    \/ e.what \in {"header", "data"} /\ e.got # e.req
    \/ ~e.decodes

C8_Failed == \E k \in 1..Len(wire) : C8_Ends(wire[k])

C8_Fatal ==
    C8_Failed =>
        /\ panicking
        /\ outcome \in {"panic", "abort"}
        /\ xpos # "done"
        /\ wire[Len(wire)].n = xfers
        /\ \A k \in 1..Len(wire) : C8_Ends(wire[k]) => k = Len(wire)

C8_NothingAfter ==
    C8_Failed => /\ wire' = wire
                 /\ xfers' = xfers
                 /\ xpos' = xpos
                 /\ xres' = xres

\* A transfer that does not end the exchange lets it go on.
C8_GoesOn ==
    (xfers' = xfers + 1 /\ ~C8_Ends(wire'[Len(wire')])) =>
        /\ ~panicking'
        /\ xpos' # xpos

\* C8, amended: the header and the data-phase transfer are fatal on error
\* and on a byte count that differs; a status poll and the acknowledgment
\* are fatal on error (a status poll also on a reply that does not decode)
\* and their byte count is not looked at.  After a fatal transfer no step
\* of the exchange runs and it returns nothing.
C8_CheckedTransfersFatal ==
    []C8_Fatal /\ [][C8_NothingAfter]_vars /\ [][C8_GoesOn]_vars

\* An exchange has ended at a read data phase that came up short.
C8_Witness ==
    /\ C8_Failed
    /\ wire[Len(wire)].what = "data"
    /\ wire[Len(wire)].dir = "in"
    /\ wire[Len(wire)].got >= 0
    /\ pc = "exit"

\* ------------------------------------------------------------ C9
\* C9: exchanges are sequential: when a header is about to be sent every
\* earlier exchange has completed its acknowledgment, and at most one
\* exchange is ever without its acknowledgment.
C9_Sequential ==
    /\ nAcks <= Len(tokens)
    /\ Len(tokens) <= nAcks + 1
    /\ (xpos = "header" /\ ~panicking) => Len(tokens) = nAcks
    /\ xpos \in {"done", "idle"} => Len(tokens) = nAcks

\* The fourth exchange of a pass is about to send its header.
C9_Witness ==
    /\ xpos = "header"
    /\ ~panicking
    /\ nAcks >= 3
    /\ Len(tokens) = nAcks

\* ------------------------------------------------------------ C10
CeilDiv(a, b) == (a + b - 1) \div b

RECURSIVE Concat(_)
Concat(pages) ==
    IF pages = <<>> THEN <<>> ELSE Head(pages) \o Concat(Tail(pages))

\* C10: slicing an image of len bytes gives ceil(len / B) blocks of B bytes
\* each; the bytes past len are zero; the blocks in order, cut to len, are
\* the image.
C10_Slicing ==
    pc = "paged" =>
        /\ Len(fw_pages) = CeilDiv(Len(image), page_size)
        /\ \A k \in 1..Len(fw_pages) : Len(fw_pages[k]) = page_size
        /\ LET all == Concat(fw_pages) IN
           /\ Len(all) >= Len(image)
           /\ \A j \in (Len(image) + 1)..Len(all) : all[j] = 0
           /\ SubSeq(all, 1, Len(image)) = image

\* An image that ends inside its second or a later block has been sliced.
C10_Witness ==
    /\ pc = "paged"
    /\ Len(fw_pages) >= 2
    /\ Len(image) % page_size # 0
    /\ image[Len(image)] # 0
    /\ fw_pages[Len(fw_pages)][page_size] = 0

\* ------------------------------------------------------------ C11
Reboots == OpsOf("reboot") \cup OpsOf("reboot2")

\* The reboot has been called only with every block verified.
C11_RebootAfterAll ==
    Reboots # {} =>
        /\ i = Len(fw_pages)
        /\ Cardinality(OpsOf("read")) = Len(fw_pages)

\* The pass moves on from block i only with a read-back of the block's
\* address that is the block, byte for byte.
C11_Advance ==
    i' # i =>
        /\ pc = "read_wait"
        /\ i' = i + 1
        /\ ops[Len(ops)] = Op("read", PICO_FLASH_START + i * page_size, page_size)
        /\ read' = fw_pages[i + 1]
        /\ Len(read') = page_size

\* A read-back that differs from the block ends the run at the comparison.
C11_Abort ==
    (pc = "read_wait" /\ xpos = "done" /\ ~panicking /\ xres # fw_pages[i + 1]) =>
        /\ panicking'
        /\ outcome' = "panic"
        /\ pc' = "drop_release"
        /\ i' = i
        /\ ops' = ops

\* A read-back shorter than the block ends the run in the exchange.
C11_Short ==
    (/\ xfers' = xfers + 1
     /\ xcmd.cmd_id = CmdRead
     /\ wire'[Len(wire')].what = "data"
     /\ wire'[Len(wire')].got # page_size
     /\ pc = "read_wait") => panicking'

\* A run that is ending calls no operation and sends nothing.
C11_NothingAfter ==
    panicking => /\ ops' = ops
                 /\ tokens' = tokens
                 /\ xfers' = xfers
                 /\ i' = i
                 /\ panicking'

\* C11: the pass reaches the reboot only if the read-back of every block
\* was the block written, byte for byte; a read-back that differs in a byte
\* or is shorter than the block ends the run with no erase, write or read
\* of a later block and no reboot.
C11_RebootOnlyVerified ==
    /\ []C11_RebootAfterAll
    /\ [][C11_Advance]_vars
    /\ [][C11_Abort]_vars
    /\ [][C11_Short]_vars
    /\ [][C11_NothingAfter]_vars

\* A run has ended at the comparison of its second or a later block: the
\* device gave back bytes that are not the block, and no reboot was called.
C11_Witness ==
    /\ pc = "exit"
    /\ panicking
    /\ xpos = "idle"
    /\ i >= 1
    /\ i < Len(fw_pages)
    /\ ops[Len(ops)].op = "read"
    /\ Len(read) = page_size
    /\ read # fw_pages[i + 1]
    /\ Reboots = {}

\* ------------------------------------------------------------ C12
\* The calls of a fault-free pass for the blocks k .. n-1 of B bytes.
RECURSIVE C12_Blocks(_, _, _)
C12_Blocks(k, n, B) ==
    IF k >= n THEN <<>>
    ELSE LET a == PICO_FLASH_START + k * B IN
         (IF (k * B) % PICO_SECTOR_SIZE = 0
          THEN <<Op("erase", a, PICO_SECTOR_SIZE)>> ELSE <<>>)
         \o <<Op("write", a, B), Op("read", a, B)>>
         \o C12_Blocks(k + 1, n, B)

\* C12: a pass without a fault over an image of n blocks calls, after the
\* interface reset and the exclusive access, for every block in order a
\* write and then a read of B bytes at flash base + i * B, before the first
\* block of every sector one erase of that sector (ceil(n * B / S) erases),
\* and last one reboot; every call is one exchange.
C12_FaultFreePass ==
    outcome = "ok" =>
        LET n == CeilDiv(Len(image), page_size) IN
        /\ Cardinality(OpsOf("write")) = n
        /\ Cardinality(OpsOf("read")) = n
        /\ Cardinality(OpsOf("erase")) = CeilDiv(n * page_size, PICO_SECTOR_SIZE)
        /\ Cardinality(Reboots) = 1
        /\ Len(ops) >= 3
        /\ SubSeq(ops, 1, 2) = <<Op("reset", 0, 0), Op("access", 0, 0)>>
        /\ SubSeq(ops, 3, Len(ops) - 1) = C12_Blocks(0, n, page_size)
        /\ Len(ops) \in Reboots
        /\ Len(tokens) = Len(ops) - 1
        /\ nAcks = Len(tokens)

\* A pass over three blocks of half a sector has finished with two erases.
C12_Witness ==
    /\ outcome = "ok"
    /\ pc = "exit"
    /\ page_size * 2 = PICO_SECTOR_SIZE
    /\ Len(fw_pages) = 3
    /\ Cardinality(OpsOf("erase")) = 2
    /\ ops[3] = Op("erase", PICO_FLASH_START, PICO_SECTOR_SIZE)

\* ------------------------------------------------------------ C13
\* The last two calls are a write and a read of the same range.
C13_WriteThenRead ==
    /\ Len(ops) >= 2
    /\ ops[Len(ops) - 1].op = "write"
    /\ ops[Len(ops)].op = "read"
    /\ ops[Len(ops)].addr = ops[Len(ops) - 1].addr
    /\ ops[Len(ops)].len = ops[Len(ops) - 1].len

\* The device programmed the bytes of the last write into an erased range.
C13_Stored == ops[Len(ops)].len > 0 => programmed.stored /\ programmed.erased

\* C13: on a device that programs what it is sent, flash_write(addr, buf)
\* and then flash_read(addr, len(buf)) returns buf, for a range that was
\* erased when it was written.
C13_RoundTrip ==
    (C13_WriteThenRead /\ C13_Stored) =>
        LET buf == ApiBuf(ops[Len(ops) - 1].len) IN
        /\ (pc = "api_wait" /\ xpos = "done") => xres = buf
        /\ (pc = "api" /\ xpos = "idle") => read = buf

\* A write of one byte or more into the erased sector and the read of the
\* same range have returned.
C13_Witness ==
    /\ C13_WriteThenRead
    /\ ops[Len(ops)].len = MaxBuf
    /\ programmed.stored
    /\ programmed.erased
    /\ pc = "api"
    /\ xpos = "idle"
    /\ read = ApiBuf(MaxBuf)
    /\ \A j \in 1..MaxBuf : read[j] # 255

\* ------------------------------------------------------------ C14
\* C14: reset_interface is called once in a run and before the first
\* command exchange: no call of an operation, no header, comes before it or
\* without it, and a finished pass has called it exactly once.
C14_ResetOnceFirst ==
    /\ Cardinality(OpsOf("reset")) <= 1
    /\ OpsOf("reset") \subseteq {1}
    /\ (ops # <<>> \/ tokens # <<>> \/ xpos # "idle" \/ xfers > 0) =>
            /\ ops[1] = Op("reset", 0, 0)
            /\ Len(tokens) <= Len(ops) - 1
    /\ outcome = "ok" => Cardinality(OpsOf("reset")) = 1

\* The header of the second exchange of a pass has gone out, after the one
\* reset.
C14_Witness ==
    /\ Len(tokens) = 2
    /\ Len(ops) = 3
    /\ ops[1].op = "reset"
    /\ OpsOf("reset") = {1}

\* ------------------------------------------------------------ C15
\* The reboot command the chip on the bus takes: the RP2040 the legacy
\* reboot with pc, sp and delay, the RP2350 reboot2 with flags 0 and delay.
C15_RebootFor(chip) ==
    IF chip = "Rp2040"
    THEN [op |-> "reboot", cmd_id |-> 2, cmd_size |-> 12,
          args |-> <<0, PICO_STACK_POINTER, 500, 0>>]
    ELSE [op |-> "reboot2", cmd_id |-> 10, cmd_size |-> 16,
          args |-> <<0, 500, 0, 0>>]

\* C15: the reboot is the last call and the last exchange of a session: no
\* call and no header follows it; a finished pass has called it exactly
\* once; its variant is the one of the chip on the bus.
C15_RebootLast ==
    /\ Cardinality(Reboots) <= 1
    /\ Reboots \subseteq {Len(ops)}
    /\ outcome = "ok" => Cardinality(Reboots) = 1
    /\ Reboots # {} =>
         LET want == C15_RebootFor(device) IN
         /\ ops[Len(ops)].op = want.op
         /\ xcmd.cmd_id = want.cmd_id
         /\ xcmd.cmd_size = want.cmd_size
         /\ xcmd.transfer_len = 0
         /\ xcmd.args = want.args
         /\ xcmd.token = cmd_token - 1
         /\ Len(tokens) <= Len(ops) - 1
         /\ \A k \in 1..Len(tokens) : tokens[k] <= xcmd.token
         /\ xpos # "header" => tokens[Len(tokens)] = xcmd.token

\* The pass on an RP2350 has finished: reboot2 was its last exchange.
C15_Witness ==
    /\ outcome = "ok"
    /\ pc = "exit"
    /\ device = "Rp2350"
    /\ ops[Len(ops)].op = "reboot2"
    /\ tokens[Len(tokens)] = xcmd.token
    /\ Len(fw_pages) >= 1

\* ------------------------------------------------------------ C16
\* What an exchange for cmd returns: the transfer_len bytes the device holds
\* at the address of the command when bit 0x80 of the identifier is set and
\* transfer_len is not zero, and nothing otherwise.
C16_Returns(cmd) ==
    IF (cmd.cmd_id \div 128) % 2 = 1 /\ cmd.transfer_len # 0
    THEN [j \in 1..cmd.transfer_len |-> FlashAt(flash, cmd.args[1] + j - 1)]
    ELSE <<>>

\* C16: a completed exchange returns the bytes read in its data phase,
\* transfer_len of them, when the high bit of the command identifier is set
\* and transfer_len is not zero, and the empty vector otherwise.
C16_Result ==
    /\ xpos = "done" =>
         /\ xres = C16_Returns(xcmd)
         /\ xres # <<>> =>
              \E k \in 1..Len(wire) : /\ wire[k].what = "data"
                                      /\ wire[k].dir = "in"
                                      /\ wire[k].got = Len(xres)
    /\ (pc = "api" /\ tokens # <<>> /\ ~panicking) => read = C16_Returns(xcmd)

\* A flash_read of the full length has returned its bytes to the caller.
C16_Witness ==
    /\ pc = "api"
    /\ xcmd.cmd_id = CmdRead
    /\ xcmd.transfer_len = MaxBuf
    /\ Len(read) = MaxBuf
    /\ nAcks = Len(tokens)

\* ------------------------------------------------------------ C17
\* The transfers of an exchange by purpose, direction and bytes asked for.
Shape(w) == [k \in 1..Len(w) |-> <<w[k].what, w[k].dir, w[k].req>>]

\* The transfers of an exchange for cmd that meets no fault.
FaultFreeShape(cmd, buf) ==
    LET rd == (cmd.cmd_id \div 128) % 2 = 1 IN
    <<<<"header", "out", 32>>, <<"status", "in", 16>>>>
    \o (IF cmd.transfer_len = 0 THEN <<>>
        ELSE <<IF rd THEN <<"data", "in", cmd.transfer_len>>
                     ELSE <<"data", "out", Len(buf)>>,
               <<"status", "in", 16>>>>)
    \o <<<<"ack", IF rd THEN "out" ELSE "in", 1>>>>

\* The status codes 0..17 and the command identifiers the code knows.
C17_Defined(r) ==
    /\ r.status_code \in 0..17
    /\ r.cmd_id \in {0, 1, 2, 3, 132, 5, 6, 7, 8, 9, 10, 139, 140, 13}

\* A status poll has brought a reply.
C17_Poll ==
    /\ xfers' = xfers + 1
    /\ wire'[Len(wire')].what = "status"
    /\ wire'[Len(wire')].got >= 0

\* A reply of defined values moves the exchange on to the step that depends
\* on the command alone and changes nothing else; any other reply ends the
\* run there.
C17_Step ==
    C17_Poll =>
        IF C17_Defined(stat')
        THEN /\ ~panicking'
             /\ xpos' = IF xpos = "stat1" /\ xcmd.transfer_len # 0
                        THEN "data" ELSE "ack"
             /\ UNCHANGED <<pc, outcome, xcmd, xbuf, xres, flash, cmd_token,
                            tokens, nAcks, ops, read>>
        ELSE /\ panicking'
             /\ outcome' = "panic"
             /\ xpos' = xpos
             /\ pc' = "drop_release"

\* An exchange that completed made the transfers and returns the bytes of
\* an exchange whose polls answered Ok, whatever its polls answered.
C17_SameAsOk ==
    xpos = "done" =>
        /\ C17_Defined(stat)
        /\ Shape(wire) = FaultFreeShape(xcmd, xbuf)
        /\ xres = C16_Returns(xcmd)

\* C17: what a status reply holds changes an exchange only by failing to
\* decode: for every defined status code and command identifier and every
\* in-progress flag the exchange makes the transfers and returns the result
\* it makes and returns for Ok; a status code above 17 or a command
\* identifier that is not defined ends the run.
C17_StatusIgnored == []C17_SameAsOk /\ [][C17_Step]_vars

\* A flash_write has completed although its last poll answered an error
\* status with the in-progress flag set.
C17_Witness ==
    /\ xpos = "done"
    /\ xcmd.cmd_id = CmdWrite
    /\ xcmd.transfer_len > 0
    /\ stat.status_code \in 1..17
    /\ stat.in_progress = 1
    /\ ~panicking
    /\ Len(wire) = 5

\* ------------------------------------------------------------ C18
\* C18: an exchange that completes has made exactly these transfers, in
\* this order and with no other transfer between them: the 32-byte header
\* bulk-OUT, a status poll, then, if transfer_len is not zero, the data
\* phase and a second status poll, then one acknowledgment, which is its
\* last transfer: three transfers when transfer_len is zero, five otherwise.
C18_Choreography ==
    xpos = "done" =>
        /\ Len(wire) = IF xcmd.transfer_len = 0 THEN 3 ELSE 5
        /\ Shape(wire) = FaultFreeShape(xcmd, xbuf)
        /\ \A k \in 1..Len(wire) : wire[k].n = xfers - Len(wire) + k
        /\ Cardinality({k \in 1..Len(wire) : wire[k].what = "ack"}) = 1
        /\ wire[Len(wire)].what = "ack"

\* An exchange without a data phase has completed in three transfers, every
\* one moving the bytes asked for.
C18_Witness ==
    /\ xpos = "done"
    /\ xcmd.transfer_len = 0
    /\ Len(wire) = 3
    /\ \A k \in 1..Len(wire) : wire[k].got = wire[k].req

\* ------------------------------------------------------------ C19
\* The base of the sector an address lies in.
C19_SectorBase(addr) == (addr \div PICO_SECTOR_SIZE) * PICO_SECTOR_SIZE

\* The block the pass was at when it made its k-th call: the block of the
\* next write.
C19_BlockOf(k) ==
    Cardinality({j \in OpsOf("write") : j < k})

\* C19: every erase call has the base address of the sector that holds the
\* block the pass is at, and the size of exactly one sector.
C19_EraseAligned ==
    \A k \in OpsOf("erase") :
        /\ ops[k].len = PICO_SECTOR_SIZE
        /\ ops[k].addr % PICO_SECTOR_SIZE = 0
        /\ ops[k].addr =
             C19_SectorBase(PICO_FLASH_START + C19_BlockOf(k) * page_size)
        /\ k = Len(ops) =>
             /\ xcmd.cmd_id \in {CmdFlashErase, CmdWrite}
             /\ xcmd.cmd_id = CmdFlashErase =>
                    xcmd.args = <<ops[k].addr, PICO_SECTOR_SIZE, 0, 0>>
        /\ k < Len(ops) =>
             /\ ops[k + 1].op = "write"
             /\ C19_SectorBase(ops[k + 1].addr) = ops[k].addr

\* The second sector of a pass whose blocks are half a sector is being
\* erased.
C19_Witness ==
    /\ pc = "erase_wait"
    /\ page_size < PICO_SECTOR_SIZE
    /\ i = 2
    /\ ops[Len(ops)] = Op("erase", PICO_FLASH_START + PICO_SECTOR_SIZE,
                          PICO_SECTOR_SIZE)
    /\ xpos = "done"

\* ------------------------------------------------------------ C20
\* C20: the teardown of a constructed session attempts the release of the
\* interface first and the reattach of the kernel driver second; the
\* reattach is attempted if and only if the kernel driver was detached in
\* the construction of the session (no detach, and no reattach, when the
\* kernel_driver_active query fails or answers false).
C20_ReleaseThenReattach ==
    /\ teardown \in {<<>>, <<"release">>, <<"release", "attach">>}
    /\ teardown # <<>> => constructed
    /\ Contains(teardown, "attach") => detached
    /\ detached <=> has_kernel_driver
    /\ (pc = "exit" /\ constructed) =>
         /\ Contains(teardown, "release")
         /\ detached => Contains(teardown, "attach")

\* ------------------------------------------------------------ C21
\* The exchanges started: every logged call but the interface reset is one.
C21_Started == Len(ops) - Cardinality(OpsOf("reset"))

\* C21: the k-th exchange started on a session carries the token k, whatever
\* its command; the counter of the session is 1 plus the number of exchanges
\* started; it is advanced before the header goes out, so that an exchange
\* that fails on its way has used up its token.
C21_TokenIsOrdinal ==
    /\ \A k \in 1..Len(tokens) : tokens[k] = k
    /\ constructed => cmd_token = 1 + C21_Started
    /\ C21_Started > 0 => xcmd.token = C21_Started
    /\ Len(tokens) <= C21_Started
    /\ C21_Started <= Len(tokens) + 1
    /\ C21_Started = Len(tokens) + 1 =>
         /\ xpos = "header"
         /\ wire = <<>>
         /\ cmd_token = xcmd.token + 1

\* The fourth or a later exchange of a pass failed after its header, and the
\* run has ended with the counter one past its token.
C21_Witness ==
    /\ pc = "exit"
    /\ panicking
    /\ xpos \in {"stat1", "data", "stat2", "ack"}
    /\ Len(tokens) >= 4
    /\ xcmd.token = Len(tokens)
    /\ cmd_token = Len(tokens) + 1

\* ------------------------------------------------------------ C22
\* The elements of a sequence.
C22_Set(seq) == {seq[k] : k \in 1..Len(seq)}

\* The sector bases whose erase call has returned: of every logged erase
\* but one that is the last call and still out.
C22_Erased ==
    {(ops[k].addr \div PICO_SECTOR_SIZE) * PICO_SECTOR_SIZE :
        k \in {j \in OpsOf("erase") : j < Len(ops) \/ pc = "write"}}

\* The set is empty until the first erase of the pass has returned, and
\* at every block boundary it is the set of the sectors erased.
C22_AtBoundary ==
    /\ OpsOf("erase") = {} => erased_sectors = <<>>
    /\ (pc \in {"block", "write"} /\ ~panicking) =>
            C22_Set(erased_sectors) = C22_Erased

\* The set changes only by gaining the sector of an erase exchange that has
\* completed, when the erase call returns.
C22_Grows ==
    erased_sectors' # erased_sectors =>
        /\ pc = "erase_wait"
        /\ xpos = "done"
        /\ wire[Len(wire)].what = "ack"
        /\ xcmd.cmd_id = CmdFlashErase
        /\ ops[Len(ops)].op = "erase"
        /\ erased_sectors' =
             Append(erased_sectors,
                    (ops[Len(ops)].addr \div PICO_SECTOR_SIZE) * PICO_SECTOR_SIZE)

\* C22: in a flashing pass the erase-tracking set starts empty and only
\* grows; at every block boundary it is exactly the set of the sector bases
\* whose erase exchange has completed in the pass; a sector is added only
\* after its erase call has returned.
C22_TrackingSet == []C22_AtBoundary /\ [][C22_Grows]_vars

\* The pass is at the boundary after its third block, with two sectors in
\* the set.
C22_Witness ==
    /\ pc = "block"
    /\ ~panicking
    /\ i = 3
    /\ Len(erased_sectors) = 2
    /\ erased_sectors[1] = PICO_FLASH_START
    /\ erased_sectors[2] = PICO_FLASH_START + PICO_SECTOR_SIZE

====
